---------------------------- MODULE Spec2Model ----------------------------
(***************************************************************************)
(* WurstSchreiber: the WurstPen outline walker of WurstSchreiber.py.       *)
(*                                                                         *)
(* The pen receives the operations of a glyph outline (moveTo, lineTo,     *)
(* curveTo, closePath, endPath) and draws knots and capsules ("sausages")  *)
(* on an output pen, the sink.                                             *)
(*                                                                         *)
(* Numbers.  The code computes with floats; the model computes with exact  *)
(* real numbers, so floating-point rounding is not modelled.  The outline  *)
(* points lie on the triangular lattice spanned by e1 = (1, 0) and         *)
(* e2 = (1/2, sqrt(3)/2): the point <<i, j>> is i*e1 + j*e2.  Segments and *)
(* Bezier handles run along the three lattice lines, so that every length  *)
(* is an integer, every joint angle is 0, 60, 120 or 180 degrees, and      *)
(* every number the code computes has the form (a + b*sqrt(13))/d, held as *)
(* the triple <<a, b, d>> (sqrt(13)/2 is sqrt(4 - sin(60)^2), which is     *)
(* what calcTriangleSSA yields).  All the code's formulas are linear or    *)
(* polynomial in the coordinates, so they read the same in lattice         *)
(* coordinates; only distance() differs, and is given for lattice          *)
(* coordinates below.                                                      *)
(*                                                                         *)
(* The sink records which calls were made and by which drawing routine,    *)
(* not the coordinates passed.                                             *)
(***************************************************************************)
EXTENDS Integers, Sequences, FiniteSets, TLC

(***************************************************************************)
(* Bounds of the model.                                                    *)
(***************************************************************************)
MaxOps == 4
MaxRadius == 3

(***************************************************************************)
(* Exact numbers <<a, b, d>> = (a + b*sqrt(13))/d, d > 0, in lowest terms. *)
(***************************************************************************)
Abs(n) == IF n < 0 THEN -n ELSE n

RECURSIVE GCD(_, _)
GCD(m, n) == IF n = 0 THEN m ELSE GCD(n, m % n)

Norm(a, b, d) ==
    LET g == GCD(GCD(Abs(a), Abs(b)), Abs(d))
        s == IF d < 0 THEN -1 ELSE 1
    IN  <<(s * a) \div g, (s * b) \div g, (s * d) \div g>>

N(n) == <<n, 0, 1>>
NZero == N(0)
NOne == N(1)
NAdd(x, y) == Norm(x[1] * y[3] + y[1] * x[3], x[2] * y[3] + y[2] * x[3], x[3] * y[3])
NNeg(x) == <<-x[1], -x[2], x[3]>>
NSub(x, y) == NAdd(x, NNeg(y))
NMul(x, y) == Norm(x[1] * y[1] + 13 * x[2] * y[2], x[1] * y[2] + x[2] * y[1], x[3] * y[3])
\* 1/x for x # 0: (a - b*sqrt(13))*d / (a^2 - 13*b^2)
NInv(x) ==
    IF x[2] = 0 THEN Norm(x[3], 0, x[1])
    ELSE Norm(x[1] * x[3], -(x[2] * x[3]), x[1] * x[1] - 13 * x[2] * x[2])
NDiv(x, y) == NMul(x, NInv(y))
Sgn(n) == IF n > 0 THEN 1 ELSE IF n < 0 THEN -1 ELSE 0
\* the sign of a + b*sqrt(13)
NSign(x) ==
    LET a == x[1]
        b == x[2]
    IN  IF Sgn(a) * Sgn(b) >= 0
        THEN (IF a # 0 THEN Sgn(a) ELSE Sgn(b))
        ELSE IF a > 0 THEN Sgn(a * a - 13 * b * b) ELSE Sgn(13 * b * b - a * a)
NIsZero(x) == x[1] = 0 /\ x[2] = 0
NLt(x, y) == NSign(NSub(x, y)) < 0
NLe(x, y) == NSign(NSub(x, y)) <= 0
NAbs(x) == IF NSign(x) < 0 THEN NNeg(x) ELSE x

RECURSIVE ISqrtFrom(_, _, _)
\* bisection: lo * lo <= n < hi * hi
ISqrtFrom(n, lo, hi) ==
    IF hi - lo <= 1 THEN lo
    ELSE LET mid == (lo + hi) \div 2
         IN  IF mid * mid <= n THEN ISqrtFrom(n, mid, hi) ELSE ISqrtFrom(n, lo, mid)
\* floor of the square root of a natural number
ISqrt(n) == ISqrtFrom(n, 0, IF n < 46340 THEN n + 1 ELSE 46340)
IsSquare(n) == n >= 0 /\ ISqrt(n) * ISqrt(n) = n
\* the square root of a rational q = a/d >= 0 that is k^2 or 13*k^2 for a
\* rational k: sqrt(a/d) = sqrt(a*d)/d
NSqrt(q) ==
    LET v == q[1] * q[3]
    IN  IF IsSquare(v) THEN Norm(ISqrt(v), 0, q[3])
        ELSE Norm(0, ISqrt(v \div 13), q[3])

(***************************************************************************)
(* Points.  A point of the outline is a pair of integers (lattice          *)
(* coordinates); a computed point is a pair of exact numbers.  None is     *)
(* Python's None; Unset is an attribute that was never assigned (reading   *)
(* it raises AttributeError).                                              *)
(***************************************************************************)
None == <<>>
Unset == <<0>>
IsPoint(p) == Len(p) = 2
NPt(p) == <<N(p[1]), N(p[2])>>

\* slope(pt_a, pt_b) = pt_b - pt_a, on computed points
slope(pt_a, pt_b) == <<NSub(pt_b[1], pt_a[1]), NSub(pt_b[2], pt_a[2])>>

\* (bx-ax)^2 + (by-ay)^2 in Cartesian coordinates, which is
\* di^2 + di*dj + dj^2 in lattice coordinates.
distance2(pt_a, pt_b) ==
    LET s == slope(pt_a, pt_b)
    IN  NAdd(NAdd(NMul(s[1], s[1]), NMul(s[1], s[2])), NMul(s[2], s[2]))

\* math.sqrt(dx**2 + dy**2) for the difference s = <<dx, dy>>: along a
\* lattice line it is the absolute value of the one coordinate difference
\* that is not zero.
hypot(s) ==
    IF NIsZero(s[2]) THEN NAbs(s[1])
    ELSE IF NIsZero(s[1]) THEN NAbs(s[2])
    ELSE IF NIsZero(NAdd(s[1], s[2])) THEN NAbs(s[1])
    ELSE NSqrt(NAdd(NAdd(NMul(s[1], s[1]), NMul(s[1], s[2])), NMul(s[2], s[2])))

\* distance(pt_a, pt_b)
distance(pt_a, pt_b) == hypot(slope(pt_a, pt_b))

\* Vector arithmetic of class Vector, on computed points.
VAdd(v, w) == <<NAdd(v[1], w[1]), NAdd(v[2], w[2])>>
VSub(v, w) == <<NSub(v[1], w[1]), NSub(v[2], w[2])>>
VMul(v, m) == <<NMul(v[1], m), NMul(v[2], m)>>

(***************************************************************************)
(* The results of the functions that can raise are records with a field    *)
(* err: the exception that escapes, or NoErr.                              *)
(***************************************************************************)
NoErr == "none"
Raise(e) == [err |-> e, val |-> None]
Return(v) == [err |-> NoErr, val |-> v]

\* calcCubicParameters: the coefficients <<a, b, c, d>> of the cubic.
calcCubicParameters(pt1, pt2, pt3, pt4) ==
    LET d == pt1
        c == VMul(VSub(pt2, d), N(3))
        b == VSub(VMul(VSub(pt3, pt2), N(3)), c)
        a == VSub(VSub(VSub(pt4, d), c), b)
    IN  <<a, b, c, d>>

\* math.acos(x): an angle of [0, pi] held as its cosine; ValueError (a
\* cosine outside [-1, 1], which exact arithmetic never yields) gives None.
acos(x) == IF NLt(NOne, x) \/ NLt(x, N(-1)) THEN None ELSE x

\* The law of cosines on the sides ab, bc and the square of ac;
\* ZeroDivisionError (b coincides with a or c) is caught and gives None.
calcAngleSides(ab, bc, ac2) ==
    IF NIsZero(bc) \/ NIsZero(ab) THEN None
    ELSE acos(NDiv(NSub(NAdd(NMul(bc, bc), NMul(ab, ab)), ac2), NMul(N(2), NMul(bc, ab))))

\* calcAngle: the angle at b, or None.
calcAngle(a, b, c) == calcAngleSides(distance(a, b), distance(b, c), distance2(a, c))

\* calcTriangleSSA with sin2 = sin(angle)^2.
\*   ratio = side1 / sin(angle)             (ZeroDivisionError if sin = 0)
\*   temp = side2 / ratio = side2 * sin(angle) / side1
\*   unknownSide = ratio * sin(180 - angle - asin(temp))
\*               = ratio * (sin(angle) * cos(asin(temp)) + cos(angle) * temp)
\*               = side1 * sqrt(1 - temp^2) + side2 * cos(angle)
calcTriangleSSASin(angle, side1, side2, sin2) ==
    IF NIsZero(sin2) THEN Raise("ZeroDivisionError")
    ELSE IF NIsZero(side1) THEN Return(NZero)
    ELSE Return(NAdd(NMul(side1,
                          NSqrt(NSub(NOne, NDiv(NMul(NMul(side2, side2), sin2),
                                                NMul(side1, side1))))),
                     NMul(side2, angle)))

\* calcTriangleSSA(angle, side1, side2), angle held as its cosine.
calcTriangleSSA(angle, side1, side2) ==
    calcTriangleSSASin(angle, side1, side2, NSub(NOne, NMul(angle, angle)))

\* splitLineAt with ldistance = distance(p0, p1).
splitLineAtRatio(p0, p1, length, ldistance) ==
    IF NIsZero(ldistance) THEN Raise("ZeroDivisionError")
    ELSE Return(VAdd(p0, VMul(VSub(p1, p0), NDiv(length, ldistance))))

\* splitLineAt: the point at `length` from p0 towards p1.
splitLineAt(p0, p1, length) == splitLineAtRatio(p0, p1, length, distance(p0, p1))

\* s = length / velocity
splitCubicAtVelocity(length, velocity) ==
    IF NIsZero(velocity) THEN Raise("ZeroDivisionError")
    ELSE Return(NDiv(length, velocity))

\* splitCubicAtLength: length / |velocity at t = 0|, the velocity being c.
splitCubicAtLength(p0, p1, p2, p3, length) ==
    splitCubicAtVelocity(length, hypot(calcCubicParameters(p0, p1, p2, p3)[3]))

\* fontTools' calcCubicPoints(a, b, c, d): the control points of the cubic
\* with these coefficients.
calcCubicPoints(a, b, c, d) ==
    <<d,
      VAdd(VMul(c, <<1, 0, 3>>), d),
      VAdd(VMul(VAdd(b, c), <<1, 0, 3>>), VAdd(VMul(c, <<1, 0, 3>>), d)),
      VAdd(VAdd(VAdd(a, d), c), b)>>

\* fontTools' _splitCubicAtT, for the piece from t1 of parameter length
\* delta; par = <<a, b, c, d>>, t1_2 = t1^2.
splitCubicPiece(par, t1, delta, t1_2) ==
    calcCubicPoints(
        VMul(par[1], NMul(delta, NMul(delta, delta))),
        VMul(VAdd(VMul(par[1], NMul(N(3), t1)), par[2]), NMul(delta, delta)),
        VMul(VAdd(VAdd(VMul(par[2], NMul(N(2), t1)), par[3]),
                  VMul(par[1], NMul(N(3), t1_2))), delta),
        VAdd(VAdd(VAdd(VMul(par[1], NMul(t1, t1_2)), VMul(par[2], t1_2)),
                  VMul(par[3], t1)), par[4]))

\* fontTools' splitCubicAtT(p0, p1, p2, p3, s1, s2)[1]: the piece between the
\* parameters t1 and t2, as its four control points.
splitCubicAtT(p0, p1, p2, p3, t1, t2) ==
    splitCubicPiece(calcCubicParameters(p0, p1, p2, p3), t1, NSub(t2, t1), NMul(t1, t1))

(***************************************************************************)
(* The state.                                                              *)
(*   unit          the spacing of the lattice the outline's points lie on  *)
(*   grain         the unit of the lengths of the outline's Bezier handles *)
(*   radius        WurstPen.radius                                         *)
(*   currentPoint  BasePen's current point: moveTo/lineTo/curveTo set it   *)
(*                 after the pen's own method returns, closePath/endPath   *)
(*                 reset it to None                                        *)
(*   firstPoint    WurstPen._firstPoint                                    *)
(*   prevPoint     WurstPen._prevPoint                                     *)
(*   sink          the calls made on WurstPen.pen, in order                *)
(*   err           the exception that escaped the pen and ended the        *)
(*                 traversal, or NoErr                                     *)
(*   log           history: the operations received, with their points,    *)
(*                 and what each did (knots and capsules emitted, margin)  *)
(*   last          history: the locals of the last operation               *)
(***************************************************************************)
VARIABLES unit, grain, radius, currentPoint, firstPoint, prevPoint, sink, err, log, last

vars == <<unit, grain, radius, currentPoint, firstPoint, prevPoint, sink, err, log, last>>

\* The points an outline may use: the corners of one lattice triangle and
\* the next point on its base line.
Pts == {<<0, 0>>, <<unit, 0>>, <<0, unit>>, <<2 * unit, 0>>}
\* Where the subpaths of the outline start.
Starts == {<<0, 0>>}
\* The handle lengths a curve may use.
Handles == {0, grain, 2 * grain}
Aligned(p, q) == p[1] = q[1] \/ p[2] = q[2] \/ p[1] + p[2] = q[1] + q[2]
\* The lattice direction from p to q: a unit step.
Dir(p, q) == IF p = q THEN <<1, 0>> ELSE <<Sgn(q[1] - p[1]), Sgn(q[2] - p[2])>>
Step(p, d, h) == <<p[1] + h * d[1], p[2] + h * d[2]>>

Call(c, by) == [call |-> c, by |-> by]
\* What a drawing routine did: the calls it made on the sink, the exception
\* it raised, and (history) the trimmed axis or the split parameters it used.
Drawn(e, calls, kind, axis, split) ==
    [err |-> e, calls |-> calls, kind |-> kind, axis |-> axis, split |-> split]
NoDraw == Drawn(NoErr, <<>>, "none", <<>>, <<>>)

\* A drawWurstKnot that draws at whatever it is given, None included.
drawWurstKnotAnywhere(p0, p1, r) ==
    Drawn(NoErr,
          <<Call("moveTo", "knot"), Call("lineTo", "knot"), Call("lineTo", "knot"),
            Call("lineTo", "knot"), Call("closePath", "knot")>>,
          "knot", <<>>, <<>>)

\* drawWurstKnot: slope() unpacks both points, then five calls.
drawWurstKnot(p0, p1, r) ==
    IF p0 = None \/ p1 = None THEN Drawn("TypeError", <<>>, "raise", <<>>, <<>>)
    ELSE Drawn(NoErr,
               <<Call("moveTo", "knot"), Call("lineTo", "knot"), Call("lineTo", "knot"),
                 Call("lineTo", "knot"), Call("closePath", "knot")>>,
               "knot", <<>>, <<>>)

\* drawWurstCap: two curveTo calls.
drawWurstCap(by) == <<Call("curveTo", by), Call("curveTo", by)>>

\* drawWurstLineSide: one lineTo call.
drawWurstLineSide(by) == <<Call("lineTo", by)>>

\* drawWurstCurveSide: rscale = rdistance/cdistance, then one curveTo call.
drawWurstCurveSide(cdistanceIsZero, by) ==
    IF cdistanceIsZero THEN Drawn("ZeroDivisionError", <<>>, "raise", <<>>, <<>>)
    ELSE Drawn(NoErr, <<Call("curveTo", by)>>, by, <<>>, <<>>)

\* A calcWurstMargin that corrects no joint.
calcWurstMarginNone(self, pt0, pt1) == Return(NZero)

\* margin = calcTriangleSSA(angle, self.radius * 2, self.radius) - self.radius
calcWurstMarginSide(self, side) ==
    IF side.err # NoErr THEN side ELSE Return(NSub(side.val, N(self.radius)))

\* if angle and math.degrees(angle) != 180
calcWurstMarginAngle(self, angle) ==
    IF angle # None /\ angle # NOne /\ angle # N(-1)
    THEN calcWurstMarginSide(self, calcTriangleSSA(angle, N(self.radius * 2), N(self.radius)))
    ELSE Return(NZero)

\* WurstPen.calcWurstMargin; calcAngle's distance() unpacks its points.
\* `self` is the pen: [radius, currentPoint, firstPoint, prevPoint].
calcWurstMargin(self, pt0, pt1) ==
    IF self.prevPoint # None
    THEN IF pt0 = None THEN Raise("TypeError")
         ELSE calcWurstMarginAngle(self, calcAngle(NPt(self.prevPoint), NPt(pt0), NPt(pt1)))
    ELSE Return(NZero)

\* drawLineWurst, once both ends are trimmed: the contour.
drawLineWurstContour(t0, t1) ==
    IF t1.err # NoErr THEN Drawn(t1.err, <<>>, "raise", <<>>, <<>>)
    ELSE Drawn(NoErr,
               <<Call("moveTo", "line")>> \o drawWurstCap("line")
                   \o drawWurstLineSide("line") \o drawWurstCap("line")
                   \o <<Call("closePath", "line")>>,
               "line", <<t0.val, t1.val>>, <<>>)

\* drawLineWurst, once p0 is trimmed to t0: the end of the axis is measured
\* from p1 towards the trimmed start.
drawLineWurstEnd(p1, r, t0) ==
    IF t0.err # NoErr THEN Drawn(t0.err, <<>>, "raise", <<>>, <<>>)
    ELSE drawLineWurstContour(t0, splitLineAt(NPt(p1), t0.val, N(r)))

\* drawLineWurst; distance() unpacks its points.
drawLineWurst(p0, p1, r, margin) ==
    IF p0 = None THEN Drawn("TypeError", <<>>, "raise", <<>>, <<>>)
    ELSE IF NLt(distance2(NPt(p0), NPt(p1)), N(r * r))
    THEN Drawn(NoErr, <<>>, "skip", <<>>, <<>>)
    ELSE drawLineWurstEnd(p1, r, splitLineAt(NPt(p0), NPt(p1), NAdd(N(r), margin)))

\* drawCurveWurst, once the curve is split: c is the piece between s1 and
\* s2, `side` what drawWurstCurveSide does (both calls divide by the same
\* cdistance).  The contour is left open on the sink when the first raises.
drawCurveWurstContour(c, s1, s2, side) ==
    IF side.err # NoErr
    THEN Drawn(side.err, <<Call("moveTo", "curve")>> \o drawWurstCap("curve"),
               "open", <<c[1], c[4]>>, <<s1, s2>>)
    ELSE Drawn(NoErr,
               <<Call("moveTo", "curve")>> \o drawWurstCap("curve") \o side.calls
                   \o drawWurstCap("curve") \o side.calls \o <<Call("closePath", "curve")>>,
               "curve", <<c[1], c[4]>>, <<s1, s2>>)

\* cdistance = distance(p0, p3) of the piece
drawCurveWurstPiece(c, s1, s2) ==
    drawCurveWurstContour(c, s1, s2, drawWurstCurveSide(c[1] = c[4], "curve"))

\* drawCurveWurst, once s1 and s2 are known or have raised.
drawCurveWurstSplit(p0, p1, p2, p3, l1, l2) ==
    IF l1.err # NoErr THEN Drawn(l1.err, <<>>, "raise", <<>>, <<>>)
    ELSE IF l2.err # NoErr THEN Drawn(l2.err, <<>>, "raise", <<>>, <<>>)
    ELSE drawCurveWurstPiece(
             splitCubicAtT(NPt(p0), NPt(p1), NPt(p2), NPt(p3), l1.val, NSub(NOne, l2.val)),
             l1.val, NSub(NOne, l2.val))

\* drawCurveWurst; distance() unpacks its points.
drawCurveWurst(p0, p1, p2, p3, r, margin) ==
    IF p0 = None THEN Drawn("TypeError", <<>>, "raise", <<>>, <<>>)
    ELSE IF NLt(distance2(NPt(p0), NPt(p3)), N(r * r))
    THEN Drawn(NoErr, <<>>, "skip", <<>>, <<>>)
    ELSE IF p0 = p1 \/ p2 = p3 THEN Drawn(NoErr, <<>>, "skip", <<>>, <<>>)
    ELSE drawCurveWurstSplit(p0, p1, p2, p3,
             splitCubicAtLength(NPt(p0), NPt(p1), NPt(p2), NPt(p3), NAdd(N(r), margin)),
             splitCubicAtLength(NPt(p3), NPt(p2), NPt(p1), NPt(p0), N(r)))

(***************************************************************************)
(* The pen's methods, as what one call does to the pen: the exception that *)
(* escapes it, the calls it makes on the sink, the new _prevPoint and      *)
(* current point, and (history) the margin and the drawing it did.         *)
(***************************************************************************)
Effect(e, calls, prev, cur, knots, margin, draw) ==
    [err |-> e, calls |-> calls, prev |-> prev, cur |-> cur, knots |-> knots,
     margin |-> margin, draw |-> draw]

\* An exception escapes _lineTo or _curveToOne: the pen's attributes stay.
SegmentFail(self, e, calls, nk) ==
    Effect(e, calls, self.prevPoint, self.currentPoint, nk, None, NoDraw)

\* self.drawLineWurst(pt0, pt1, ...) or self.drawCurveWurst(pt0, pt1, pt2, pt3, ...)
SegmentWurst(self, pts, margin) ==
    IF Len(pts) = 1 THEN drawLineWurst(self.currentPoint, pts[1], self.radius, margin)
    ELSE drawCurveWurst(self.currentPoint, pts[1], pts[2], pts[3], self.radius, margin)

\* The wurst is drawn (w), then _prevPoint is set.
SegmentDrawn(self, pts, anchor, knot, nk, margin, w) ==
    IF w.err # NoErr
    THEN Effect(w.err, knot.calls \o w.calls, self.prevPoint, self.currentPoint, nk, margin, w)
    ELSE Effect(NoErr, knot.calls \o w.calls, anchor, pts[Len(pts)], nk, margin, w)

\* The margin is computed, then the wurst is drawn.
SegmentMargin(self, pts, anchor, knot, nk, margin) ==
    IF margin.err # NoErr THEN SegmentFail(self, margin.err, knot.calls, nk)
    ELSE SegmentDrawn(self, pts, anchor, knot, nk, margin.val,
                      SegmentWurst(self, pts, margin.val))

\* The knot is drawn or not, then the margin is computed.
SegmentKnot(self, pts, anchor, knot) ==
    IF knot.err # NoErr THEN SegmentFail(self, knot.err, <<>>, 0)
    ELSE SegmentMargin(self, pts, anchor, knot, IF knot.kind = "knot" THEN 1 ELSE 0,
                       calcWurstMargin(self, self.currentPoint, pts[1]))

\* _lineTo and _curveToOne: the knot of a subpath's first segment, the
\* margin, the wurst.  `pts` are the operation's points (one for a line,
\* three for a curve), `anchor` is what _prevPoint becomes.
Segment(self, pts, anchor) ==
    IF self.prevPoint = Unset THEN SegmentFail(self, "AttributeError", <<>>, 0)
    ELSE SegmentKnot(self, pts, anchor,
                     IF self.prevPoint = None
                     THEN drawWurstKnot(self.currentPoint, pts[1], self.radius)
                     ELSE NoDraw)

\* A lineTo that forgets to set _prevPoint.
lineToForgetful(self, pt1) == Segment(self, <<pt1>>, self.prevPoint)

\* BasePen.lineTo: _lineTo(pt1), then the current point is pt1;
\* _prevPoint becomes pt0.
lineTo(self, pt1) == Segment(self, <<pt1>>, self.currentPoint)

\* A curveTo that sets _prevPoint to the curve's start point.
curveToFromStart(self, pt1, pt2, pt3) == Segment(self, <<pt1, pt2, pt3>>, self.currentPoint)

\* BasePen.curveTo: _curveToOne(pt1, pt2, pt3), then the current point is
\* pt3; _prevPoint becomes pt2.
curveTo(self, pt1, pt2, pt3) == Segment(self, <<pt1, pt2, pt3>>, pt2)

\* BasePen.closePath after _closePath has called lineTo: the current point
\* is None, unless an exception escaped.
closePathLine(e) == IF e.err # NoErr THEN e ELSE [e EXCEPT !.cur = None]

\* BasePen.closePath: _closePath(), then the current point is None.
closePath(self) ==
    IF self.firstPoint = Unset
    THEN Effect("AttributeError", <<>>, self.prevPoint, self.currentPoint, 0, None, NoDraw)
    ELSE IF self.firstPoint # self.currentPoint
    THEN closePathLine(lineTo(self, self.firstPoint))
    ELSE Effect(NoErr, <<>>, self.prevPoint, None, 0, None, NoDraw)

\* An endPath that never draws the end knot.
endPathSilent(self) ==
    IF self.prevPoint = Unset
    THEN Effect("AttributeError", <<>>, self.prevPoint, self.currentPoint, 0, None, NoDraw)
    ELSE Effect(NoErr, <<>>, self.currentPoint, None, 0, None, NoDraw)

\* _endPath once the knot is drawn or not: _prevPoint is set.
endPathKnot(self, knot) ==
    IF knot.err # NoErr
    THEN Effect(knot.err, <<>>, self.prevPoint, self.currentPoint, 0, None, NoDraw)
    ELSE Effect(NoErr, knot.calls, self.currentPoint, None,
                IF knot.kind = "knot" THEN 1 ELSE 0, None, knot)

\* An endPath that draws a knot at the current point of every subpath.
endPathAlways(self) ==
    IF self.prevPoint = Unset
    THEN Effect("AttributeError", <<>>, self.prevPoint, self.currentPoint, 0, None, NoDraw)
    ELSE endPathKnot(self, drawWurstKnot(self.currentPoint, self.currentPoint, self.radius))

\* BasePen.endPath: _endPath(), then the current point is None.
endPath(self) ==
    IF self.prevPoint = Unset
    THEN Effect("AttributeError", <<>>, self.prevPoint, self.currentPoint, 0, None, NoDraw)
    ELSE endPathKnot(self, IF self.prevPoint # None
                           THEN drawWurstKnot(self.currentPoint, self.prevPoint, self.radius)
                           ELSE NoDraw)

\* The pen as the methods see it.
Pen == {[radius |-> radius, currentPoint |-> currentPoint, firstPoint |-> firstPoint,
         prevPoint |-> prevPoint]}

\* One operation of the outline reaches the pen: the state after it.
Apply(op, pts, e) ==
        /\ sink' = sink \o e.calls
        /\ prevPoint' = e.prev
        /\ currentPoint' = e.cur
        /\ err' = e.err
        /\ log' = Append(log, [op |-> op, pts |-> pts, err |-> e.err, knots |-> e.knots,
                               caps |-> IF e.draw.kind \in {"line", "curve", "open"} THEN 1 ELSE 0,
                               margin |-> e.margin])
        /\ last' = [op |-> op, pt0 |-> currentPoint, prev0 |-> prevPoint,
                    sink0 |-> Len(sink), draw |-> e.draw]
        /\ UNCHANGED <<unit, grain, radius>>

\* The spacing, the grain and the radius of a traversal.
Configs == {<<200, 50, 50 * k>> : k \in 0..MaxRadius}

Init ==
    /\ \E c \in Configs : unit = c[1] /\ grain = c[2] /\ radius = c[3]
    /\ currentPoint = None
    /\ firstPoint = Unset
    /\ prevPoint = Unset
    /\ sink = <<>>
    /\ err = NoErr
    /\ log = <<>>
    /\ last = [op |-> "init", pt0 |-> None, prev0 |-> Unset, sink0 |-> 0, draw |-> NoDraw]

\* The traversal goes on: no exception has ended it, and the outline has
\* operations left.
Walking == err = NoErr /\ Len(log) < MaxOps

\* WurstPen._moveTo, then BasePen.moveTo sets the current point.
MoveTo ==
    \E pt1 \in Starts :
        /\ Walking
        /\ firstPoint' = pt1
        /\ Apply("moveTo", <<pt1>>, Effect(NoErr, <<>>, None, pt1, 0, None, NoDraw))

LineTo ==
    \E pt1 \in Pts, self \in Pen :
        /\ Walking
        /\ IsPoint(currentPoint) => Aligned(currentPoint, pt1)
        /\ \E e \in {lineTo(self, pt1)} : Apply("lineTo", <<pt1>>, e)
        /\ UNCHANGED firstPoint

\* The curves of the outline have their handles on the chord's line.
CurveTo ==
    \E pt3 \in Pts, h \in Handles, self \in Pen :
        /\ Walking
        /\ \A i \in 1..Len(log) : log[i].op # "curveTo"
        /\ IsPoint(currentPoint) => Aligned(currentPoint, pt3)
        /\ \E d \in {IF IsPoint(currentPoint) THEN Dir(currentPoint, pt3) ELSE <<1, 0>>} :
           \E pt1 \in {IF IsPoint(currentPoint) THEN Step(currentPoint, d, h) ELSE pt3} :
           \E pt2 \in {Step(pt3, d, -h)} :
           \E e \in {curveTo(self, pt1, pt2, pt3)} : Apply("curveTo", <<pt1, pt2, pt3>>, e)
        /\ UNCHANGED firstPoint

ClosePath ==
    /\ Walking
    /\ (IsPoint(currentPoint) /\ IsPoint(firstPoint)) => Aligned(currentPoint, firstPoint)
    /\ \E self \in Pen : \E e \in {closePath(self)} : Apply("closePath", <<>>, e)
    /\ UNCHANGED firstPoint

EndPath ==
    /\ Walking
    /\ \E self \in Pen : \E e \in {endPath(self)} : Apply("endPath", <<>>, e)
    /\ UNCHANGED firstPoint

Next == MoveTo \/ LineTo \/ CurveTo \/ ClosePath \/ EndPath

Spec == Init /\ [][Next]_vars

(***************************************************************************)
(* What the traversal has done so far, read off the sink and the log.      *)
(***************************************************************************)
\* The contours the routines tagged `by` have begun on the sink.
Contours(by) == Cardinality({k \in 1..Len(sink) : sink[k].call = "moveTo" /\ sink[k].by \in by})
Knots == Contours({"knot"})
Capsules == Contours({"line", "curve"})
Ops == [i \in 1..Len(log) |-> log[i].op]
IsSegment(i) == log[i].op \in {"lineTo", "curveTo"}
\* Operation i is received with a subpath open: after a moveTo or a segment.
InSubpath(i) == i > 1 /\ log[i - 1].op \in {"moveTo", "lineTo", "curveTo"}
\* A lineTo or curveTo was received between the last moveTo before i and i.
SegmentSinceMoveTo(i) ==
    \E j \in 1..(i - 1) :
        /\ IsSegment(j)
        /\ \A m \in (j + 1)..(i - 1) : log[m].op # "moveTo"
\* The end point of the line the last operation drew.
LastTarget == IF last.op = "closePath" THEN firstPoint ELSE log[Len(log)].pts[1]
PointDistance2(p, q) == distance2(NPt(p), NPt(q))

(***************************************************************************)
(* C1.  The calls on the sink always form closed contours: every moveTo is *)
(* followed by lineTo/curveTo calls and then a closePath before the next   *)
(* moveTo or the end of the traversal, and no lineTo, curveTo or closePath *)
(* is outside a contour.  (The sink has no endPath call at all.)           *)
(* The code violates it: drawCurveWurst raises ZeroDivisionError in        *)
(* drawWurstCurveSide after it has begun the contour.                      *)
(***************************************************************************)
C1_ClosedContours ==
    \A k \in 1..Len(sink) :
        /\ sink[k].call \in {"moveTo", "lineTo", "curveTo", "closePath"}
        /\ sink[k].call = "moveTo" => (k = 1 \/ sink[k - 1].call = "closePath")
        /\ sink[k].call # "moveTo" =>
               (k > 1 /\ sink[k - 1].call \in {"moveTo", "lineTo", "curveTo"})
        /\ k = Len(sink) => sink[k].call = "closePath"

(***************************************************************************)
(* C2.  The open outline moveTo(p0), lineTo(p1), endPath with              *)
(* distance(p0, p1) = 200 and radius 50.                                   *)
(***************************************************************************)
C2_Outline ==
    /\ Ops = <<"moveTo", "lineTo", "endPath">>
    /\ radius = 50
    /\ PointDistance2(log[1].pts[1], log[2].pts[1]) = N(200 * 200)

\* C2 as amended: the outline emits exactly two knot contours (one where
\* the subpath starts, one at its open end) and exactly one capsule.
C2_TwoKnotsOneCapsule == C2_Outline => (err = NoErr /\ Knots = 2 /\ Capsules = 1)

\* C2, witness: the outline has been walked.
C2_Witness == C2_Outline /\ err = NoErr /\ Knots = 2

\* C2 as claimed: the outline emits exactly one knot contour and exactly
\* one capsule.
C2_OneKnotOneCapsule == C2_Outline => (Knots = 1 /\ Capsules = 1)

(***************************************************************************)
(* C3.  The closed triangle moveTo(A), lineTo(B), lineTo(C), closePath     *)
(* with equal sides (all interior angles 60 degrees), a positive radius,   *)
(* and every side longer than what is trimmed from it.                     *)
(***************************************************************************)
C3_Outline ==
    /\ Ops = <<"moveTo", "lineTo", "lineTo", "closePath">>
    /\ err = NoErr
    /\ radius > 0
    /\ PointDistance2(log[1].pts[1], log[2].pts[1]) = N(unit * unit)
    /\ PointDistance2(log[2].pts[1], log[3].pts[1]) = N(unit * unit)
    /\ PointDistance2(log[3].pts[1], log[1].pts[1]) = N(unit * unit)
    /\ \A i \in 2..4 : NLt(NAdd(N(2 * radius), log[i].margin), N(unit))

\* C3 as amended: three capsules and one knot (where the subpath starts);
\* the first segment has margin 0, the two after it a positive margin.
C3_ThreeCapsulesOneKnot ==
    C3_Outline =>
        /\ Capsules = 3
        /\ Knots = 1
        /\ log[2].margin = NZero
        /\ NLt(NZero, log[3].margin)
        /\ NLt(NZero, log[4].margin)

\* C3, witness: the triangle has been walked.
C3_Witness == C3_Outline /\ Capsules = 3

\* C3 as claimed: three capsules, no knot, every segment a positive margin.
C3_ThreeCapsulesNoKnot ==
    C3_Outline =>
        /\ Capsules = 3
        /\ Knots = 0
        /\ \A i \in 2..4 : NLt(NZero, log[i].margin)

(***************************************************************************)
(* C4.  The isolated point: moveTo(p), then endPath.                       *)
(***************************************************************************)
\* C4 as amended: the isolated point emits nothing on the sink, whatever
\* the radius.
C4_IsolatedPointEmitsNothing ==
    Ops = <<"moveTo", "endPath">> => (err = NoErr /\ sink = <<>>)

\* C4, witness: an isolated point has been walked.
C4_Witness == Ops = <<"moveTo", "endPath">> /\ err = NoErr

\* C4 as claimed: the isolated point emits exactly one knot and no capsule.
C4_IsolatedPointOneKnot ==
    Ops = <<"moveTo", "endPath">> => (Knots = 1 /\ Capsules = 0)

(***************************************************************************)
(* C5.  A lineTo or curveTo received inside a subpath never raises,        *)
(* however degenerate its geometry.                                        *)
(* The code violates it: ZeroDivisionError escapes splitLineAt and         *)
(* drawWurstCurveSide.                                                     *)
(***************************************************************************)
C5_NoErrorEscapes ==
    (last.op \in {"lineTo", "curveTo"} /\ IsPoint(last.pt0)) => err = NoErr

(***************************************************************************)
(* C6.  A lineTo or curveTo received with no subpath open (no current      *)
(* point) fails: an exception escapes, nothing is emitted on the sink for  *)
(* it, and the pen is left as it was.                                      *)
(***************************************************************************)
C6_NoSubpathFails ==
    (last.op \in {"lineTo", "curveTo"} /\ last.pt0 = None) =>
        /\ err \in {"AttributeError", "TypeError"}
        /\ Len(sink) = last.sink0
        /\ prevPoint = last.prev0
        /\ currentPoint = None

\* C6, witness: a lineTo after the subpath was closed, and before any moveTo.
C6_Witness ==
    /\ last.op \in {"lineTo", "curveTo"}
    /\ last.pt0 = None
    /\ err = "TypeError"
    /\ \E i \in 1..Len(log) : log[i].op = "closePath"

(***************************************************************************)
(* C7.  Whenever drawLineWurst strokes a line (distance(p0, p1) >=         *)
(* radius), the axis it strokes starts at radius + margin from p0 towards  *)
(* p1 and ends at radius from the original p1 towards the original p0.     *)
(* The code violates it: the end is measured towards the trimmed start,    *)
(* which lies beyond p1 when radius + margin > distance(p0, p1).           *)
(***************************************************************************)
C7_TrimmedAxis ==
    last.draw.kind = "line" =>
        /\ last.draw.axis[1] =
               splitLineAt(NPt(last.pt0), NPt(LastTarget),
                           NAdd(N(radius), log[Len(log)].margin)).val
        /\ last.draw.axis[2] = splitLineAt(NPt(LastTarget), NPt(last.pt0), N(radius)).val

(***************************************************************************)
(* C8.  _prevPoint after a lineTo or curveTo.                              *)
(***************************************************************************)
\* C8 as amended: after a lineTo, _prevPoint is the point the line started
\* at; after a curveTo, it is the curve's second control point.
C8_PrevPointAfterSegment ==
    /\ (err = NoErr /\ last.op = "lineTo") => prevPoint = last.pt0
    /\ (err = NoErr /\ last.op = "curveTo") => prevPoint = log[Len(log)].pts[2]

\* C8, witness: a curveTo has left _prevPoint off the curve's start point.
C8_Witness ==
    /\ err = NoErr
    /\ last.op = "curveTo"
    /\ prevPoint = log[Len(log)].pts[2]
    /\ prevPoint # last.pt0

\* C8 as claimed: after a lineTo or a curveTo, _prevPoint is the point the
\* segment started at.
C8_PrevPointIsSegmentStart ==
    (err = NoErr /\ last.op \in {"lineTo", "curveTo"}) => prevPoint = last.pt0

(***************************************************************************)
(* C9.  Whenever drawCurveWurst does not skip a curve, its split           *)
(* parameters satisfy 0 <= s1 < s2 <= 1.                                   *)
(* The code violates it: nothing bounds s1 and s2.                         *)
(***************************************************************************)
C9_SplitOrdered ==
    last.draw.kind \in {"curve", "open"} =>
        /\ NLe(NZero, last.draw.split[1])
        /\ NLt(last.draw.split[1], last.draw.split[2])
        /\ NLe(last.draw.split[2], NOne)

(***************************************************************************)
(* C10.  Knots are accounted per subpath.                                  *)
(***************************************************************************)
\* The first segment after a moveTo emits the start knot and has margin 0,
\* stroked or not; a segment after a segment emits no knot; closePath
\* emits no knot.
C10_StartKnots ==
    \A i \in 1..Len(log) :
        /\ (IsSegment(i) /\ i > 1 /\ log[i - 1].op = "moveTo") =>
               (log[i].knots = 1 /\ log[i].margin = NZero)
        /\ (IsSegment(i) /\ i > 1 /\ IsSegment(i - 1)) => log[i].knots = 0
        /\ log[i].op = "closePath" => log[i].knots = 0

\* C10 as amended: an endPath received with a subpath open emits one end
\* knot if and only if a lineTo or curveTo came since the last moveTo; an
\* endPath received with no subpath open emits none.
C10_KnotAccounting ==
    /\ C10_StartKnots
    /\ \A i \in 1..Len(log) :
           log[i].op = "endPath" =>
               /\ InSubpath(i) => (log[i].knots = 1 <=> SegmentSinceMoveTo(i))
               /\ ~InSubpath(i) => log[i].knots = 0

\* C10, witness: a subpath of two segments was ended.
C10_Witness ==
    /\ Ops = <<"moveTo", "lineTo", "lineTo", "endPath">>
    /\ err = NoErr
    /\ log[2].knots = 1
    /\ log[4].knots = 1

\* C10 as claimed: every endPath emits one end knot if and only if a lineTo
\* or curveTo came since the last moveTo.
C10_EndKnotIffSegment ==
    /\ C10_StartKnots
    /\ \A i \in 1..Len(log) :
           log[i].op = "endPath" => (log[i].knots = 1 <=> SegmentSinceMoveTo(i))

=============================================================================
